---------------------------- MODULE Spec2Model ----------------------------
(***************************************************************************)
(* A model of src/src/mabelast.py: the drom.ru catalog crawler.            *)
(*                                                                         *)
(*   SpecFetch  fetch_url alone: one call, every GET outcome chosen by the *)
(*              environment.                                               *)
(*   SpecParse  one thread running parse_car_generation_page on a page     *)
(*              drawn from every page within the bounds.                   *)
(*   SpecGen    NumWorkers threads running parse_car_generation_page       *)
(*              concurrently, while time passes.                           *)
(*                                                                         *)
(* A text (a key, a cell, a header) is a sequence of tokens: words, and    *)
(* the white-space tokens " " and "\n".  A dict is a function from keys to  *)
(* texts; dict objects live in `heap`, and variables hold references.      *)
(*                                                                         *)
(* Strings of the source that are written in Cyrillic are transliterated   *)
(* (the parser accepts ASCII only inside string literals); each is given   *)
(* with its original in the comment of its definition.                     *)
(***************************************************************************)
EXTENDS Naturals, Integers, Sequences, FiniteSets, TLC

VARIABLES
    \* ---- fetch_url (one call) ----
    attempt,        \* the loop variable of `for attempt in range(MAX_RETRIES)`
    fpc,            \* position in fetch_url: "get" | "sleep" | "done"
    fresult,        \* what fetch_url returned (Pending until it returns)
    gets,           \* number of requests.get calls made
    sleeps,         \* number of time.sleep calls made
    slept,          \* total seconds slept
    seen,           \* per kind of GET outcome, how many GETs ended that way
    \* ---- the crawl ----
    all_data,       \* the global list: a sequence of references to dicts
    heap,           \* the dict objects: reference -> dict
    file_lock,      \* threading.Lock: TRUE when held
    last_save_time, \* the global timestamp
    now,            \* time.time()
    file,           \* parser_dorm.xlsx: NoFile, Corrupt, or its data rows
    thr,            \* the threads: id -> frame (position, locals)
    lastSave        \* history: the last finished save_data_to_excel

fetchVars == <<attempt, fpc, fresult, gets, sleeps, slept, seen>>

crawlVars == <<all_data, heap, file_lock, last_save_time, now, file, thr, lastSave>>

vars == <<attempt, fpc, fresult, gets, sleeps, slept, seen,
          all_data, heap, file_lock, last_save_time, now, file, thr, lastSave>>

---------------------------------------------------------------------------
(* Program constants *)

MAX_RETRIES == 50

RETRY_DELAY == 5

SAVE_INTERVAL == 20

\* the statuses of `if response.status_code in [429, 503, 443]`
RetryableStatuses == {429, 503, 443}

\* the statuses the environment may answer with: 200, the three retryable
\* ones, and two that are neither (404, 500)
Statuses == {200, 429, 503, 443, 404, 500}

---------------------------------------------------------------------------
(* fetch_url *)

Pending == [kind |-> "pending"]

\* no save_data_to_excel has finished yet
NoSave ==
    [ok |-> FALSE, rows |-> 0, len |-> 0, made |-> 0, n |-> 0,
     prevOk |-> FALSE, prevRows |-> 0, prevMade |-> 0]

\* Python's None
None == [kind |-> "None"]

\* the response object of the n-th requests.get of the call
Response(code, n) == [kind |-> "response", status_code |-> code, nth |-> n]

\* The log of the call, kept as counts: how many GETs ended with 200, with
\* 429, with 503 or 443, with another status, with a RequestException.
OutcomeKinds == {"s200", "s429", "s503_443", "sOther", "exc"}

KindOfStatus(code) ==
    IF code = 200 THEN "s200"
    ELSE IF code = 429 THEN "s429"
    ELSE IF code \in {503, 443} THEN "s503_443"
    ELSE "sOther"

Count(kind) == [seen EXCEPT ![kind] = @ + 1]

FetchInit ==
    /\ attempt = 0
    /\ fpc = "get"
    /\ fresult = Pending
    /\ gets = 0
    /\ sleeps = 0
    /\ slept = 0
    /\ seen = [k \in OutcomeKinds |-> 0]
    /\ all_data = <<>> /\ heap = <<>> /\ file_lock = FALSE
    /\ last_save_time = 0 /\ now = 0 /\ file = [kind |-> "nofile"]
    /\ thr = <<>> /\ lastSave = NoSave

InLoop_OffByOne == fpc = "get" /\ attempt <= MAX_RETRIES

\* the loop goes on while attempt is in range(MAX_RETRIES)
InLoop == fpc = "get" /\ attempt < MAX_RETRIES

IsRetryable_AnyError(code) == code # 200

\* response.status_code in [429, 503, 443]
IsRetryable(code) == code \in RetryableStatuses

SleepDelay_Backoff(a) == RETRY_DELAY * (a + 1)

\* the argument of time.sleep in iteration a: RETRY_DELAY, whatever a is
SleepDelay(a) == RETRY_DELAY

\* requests.get answers 200: return response
FetchGetOk ==
    /\ InLoop
    /\ gets' = gets + 1
    /\ seen' = Count(KindOfStatus(200))
    /\ fresult' = Response(200, gets + 1)
    /\ fpc' = "done"
    /\ UNCHANGED <<attempt, sleeps, slept>>
    /\ UNCHANGED crawlVars

\* requests.get answers 429, 503 or 443: warn, go on to time.sleep
FetchGetRetryable ==
    /\ InLoop
    /\ \E code \in Statuses :
        /\ code # 200
        /\ IsRetryable(code)
        /\ seen' = Count(KindOfStatus(code))
    /\ gets' = gets + 1
    /\ fpc' = "sleep"
    /\ UNCHANGED <<attempt, fresult, sleeps, slept>>
    /\ UNCHANGED crawlVars

\* requests.get answers any other status: return None at once
FetchGetCritical ==
    /\ InLoop
    /\ \E code \in Statuses :
        /\ code # 200
        /\ ~ IsRetryable(code)
        /\ seen' = Count(KindOfStatus(code))
    /\ gets' = gets + 1
    /\ fresult' = None
    /\ fpc' = "done"
    /\ UNCHANGED <<attempt, sleeps, slept>>
    /\ UNCHANGED crawlVars

FetchGetException_NoSleep ==
    /\ InLoop
    /\ gets' = gets + 1
    /\ seen' = Count("exc")
    /\ attempt' = attempt + 1
    /\ UNCHANGED <<fpc, fresult, sleeps, slept>>
    /\ UNCHANGED crawlVars

\* requests.get raises a RequestException (connection error, timeout):
\* warn, go on to time.sleep
FetchGetException ==
    /\ InLoop
    /\ gets' = gets + 1
    /\ seen' = Count("exc")
    /\ fpc' = "sleep"
    /\ UNCHANGED <<attempt, fresult, sleeps, slept>>
    /\ UNCHANGED crawlVars

\* time.sleep(RETRY_DELAY) of either branch, then the next iteration of the
\* for loop
FetchSleep ==
    /\ fpc = "sleep"
    /\ sleeps' = sleeps + 1
    /\ slept' = slept + SleepDelay(attempt)
    /\ attempt' = attempt + 1
    /\ fpc' = "get"
    /\ UNCHANGED <<fresult, gets, seen>>
    /\ UNCHANGED crawlVars

\* the for loop is exhausted: log the error, return None
FetchExhausted ==
    /\ fpc = "get"
    /\ ~ InLoop
    /\ fresult' = None
    /\ fpc' = "done"
    /\ UNCHANGED <<attempt, gets, sleeps, slept, seen>>
    /\ UNCHANGED crawlVars

FetchNext ==
    \/ FetchGetOk
    \/ FetchGetRetryable
    \/ FetchGetCritical
    \/ FetchGetException
    \/ FetchSleep
    \/ FetchExhausted

SpecFetch == FetchInit /\ [][FetchNext]_vars

---------------------------------------------------------------------------
(* Claims about fetch_url, checked under SpecFetch *)

\* the GETs of the call that ended with 429, 503 or 443
RetryableSeen == seen["s429"] + seen["s503_443"]

\* C1: while every response so far had a status in {429, 503, 443}, the
\* call goes on (up to 50 attempts), and when the N-th response is the
\* first 200 the call has returned that N-th response after exactly N GETs
\* and exactly N-1 sleeps of RETRY_DELAY seconds each (N = 1: no sleep).
C1_RetryThenOk ==
    (seen["exc"] = 0 /\ seen["sOther"] = 0) =>
        /\ (seen["s200"] = 0 /\ RetryableSeen < 50) => fpc # "done"
        /\ seen["s200"] > 0 =>
            /\ seen["s200"] = 1
            /\ RetryableSeen + 1 \in 1..50
            /\ fpc = "done"
            /\ fresult = Response(200, RetryableSeen + 1)
            /\ gets = RetryableSeen + 1
            /\ sleeps = RetryableSeen
            /\ slept = RetryableSeen * 5

\* the 200 comes on the 50th attempt, after 49 retryable statuses
C1_Witness ==
    /\ seen["exc"] = 0 /\ seen["sOther"] = 0
    /\ seen["s503_443"] > 0 /\ seen["s429"] > 0
    /\ fresult = Response(200, 50)

\* the 200 comes at once
C1_WitnessFirst == fresult = Response(200, 1) /\ sleeps = 0

\* C2: when every response is a 429, fetch_url makes exactly 50 GETs,
\* never a 51st, and then returns None.
C2_Always429 ==
    (seen["s429"] = gets) =>
        /\ gets <= 50
        /\ fpc = "done" => (gets = 50 /\ fresult = None)
        /\ (gets = 50 /\ fpc = "get") => ENABLED FetchExhausted

C2_Witness == seen["s429"] = 50 /\ gets = 50 /\ fpc = "done" /\ fresult = None

\* C3: a response whose status is neither 200 nor 429/503/443 ends the call
\* at once with None: it is the last GET, and no sleep follows it (the
\* sleeps are those of the earlier attempts); on the first attempt that is
\* exactly 1 GET and no sleep.
C3_CriticalAborts ==
    seen["sOther"] > 0 =>
        /\ seen["sOther"] = 1
        /\ fpc = "done"
        /\ fresult = None
        /\ gets = RetryableSeen + seen["exc"] + 1
        /\ sleeps = gets - 1
        /\ (RetryableSeen + seen["exc"] = 0) => (gets = 1 /\ sleeps = 0)

C3_Witness == seen["sOther"] = 1 /\ gets = 1 /\ fresult = None

\* C4: RequestExceptions and retryable statuses are counted by the one loop
\* variable: the GETs never exceed 50, every such failed attempt is followed
\* by one sleep of RETRY_DELAY seconds, and the call returns None once 50
\* attempts were made without a 200.
C4_SharedCounter ==
    LET failed == RetryableSeen + seen["exc"] IN
    /\ gets <= 50
    /\ failed <= 50
    /\ sleeps = failed - (IF fpc = "sleep" THEN 1 ELSE 0)
    /\ slept = sleeps * 5
    /\ attempt = sleeps
    /\ (fpc = "done" /\ failed = 50) => fresult = None
    /\ (fpc = "done" /\ seen["s200"] = 0 /\ seen["sOther"] = 0) =>
            (failed = 50 /\ gets = 50 /\ sleeps = 50)
    /\ (failed = 50 /\ fpc = "get") => (~ ENABLED FetchGetOk /\ ENABLED FetchExhausted)

\* 50 failed attempts of both kinds, then None
C4_Witness ==
    /\ seen["exc"] > 0 /\ seen["s429"] > 0 /\ seen["s503_443"] > 0
    /\ seen["exc"] + RetryableSeen = 50
    /\ fpc = "done" /\ fresult = None

---------------------------------------------------------------------------
(* Texts: str.strip(), re.sub(r'\s+', ' ', ...), the `in` of strings *)

IsWs(tok) == tok \in {" ", "\n"}

RECURSIVE LStrip(_)
LStrip(t) ==
    IF t = <<>> THEN <<>>
    ELSE IF IsWs(Head(t)) THEN LStrip(Tail(t)) ELSE t

RECURSIVE RStrip(_)
RStrip(t) ==
    IF t = <<>> THEN <<>>
    ELSE IF IsWs(t[Len(t)]) THEN RStrip(SubSeq(t, 1, Len(t) - 1)) ELSE t

\* str.strip()
Strip(t) == RStrip(LStrip(t))

\* re.sub(r'\s+', ' ', t): every run of white space becomes one " "
RECURSIVE CollapseWs(_)
CollapseWs(t) ==
    IF t = <<>> THEN <<>>
    ELSE IF IsWs(Head(t)) THEN <<" ">> \o CollapseWs(LStrip(Tail(t)))
    ELSE <<Head(t)>> \o CollapseWs(Tail(t))

\* word in t, for a word that is one token
Contains(t, word) == \E i \in 1..Len(t) : t[i] = word

\* "Сравнить"
Sravnit == "Sravnit"

\* the placeholder '-'
Dash == <<"-">>

---------------------------------------------------------------------------
(* The keys of the dicts *)

\* "ТИП"
K_TIP == <<"TIP">>
\* "Марка"
K_Marka == <<"Marka">>
\* "Модель"
K_Model == <<"Model">>
\* "Для какой страны"
K_Strana == <<"Dlya", " ", "kakoy", " ", "strany">>
\* "Описание 1"
K_Opisanie == <<"Opisanie", " ", "1">>
\* "Общее"
K_Obshchee == <<"Obshchee">>
\* "Комплектация"
K_Komplektatsiya == <<"Komplektatsiya">>
\* "Период выпуска"
K_Period == <<"Period", " ", "vypuska">>
\* "Рекомендованная цена, руб."
K_Tsena == <<"Rekomendovannaya", " ", "tsena,", " ", "rub.">>
\* "Марка двигателя"
K_Dvigatel == <<"Marka", " ", "dvigatelya">>
\* "Марка кузова"
K_Kuzov == <<"Marka", " ", "kuzova">>
\* "Цена*"
K_TsenaStar == <<"Tsena*">>

\* the keys a generation task finds in the dict its parent stage built
AncestorKeys == {K_TIP, K_Marka, K_Model, K_Strana, K_Opisanie}

---------------------------------------------------------------------------
(* Dicts *)

\* d[k] = v
SetItem(d, k, v) == [x \in DOMAIN d \cup {k} |-> IF x = k THEN v ELSE d[x]]

SetPlaceholders_ClobbersMarka(d) ==
    LET d1 == SetItem(d, K_Obshchee, Dash)
        d2 == SetItem(d1, K_Komplektatsiya, Dash)
        d3 == SetItem(d2, K_Period, Dash)
        d4 == SetItem(d3, K_Tsena, Dash)
        d5 == SetItem(d4, K_Dvigatel, Dash)
    IN  SetItem(d5, K_Marka, Dash)

\* data["Общее"] = "-" ... data["Марка кузова"] = '-'
SetPlaceholders(d) ==
    LET d1 == SetItem(d, K_Obshchee, Dash)
        d2 == SetItem(d1, K_Komplektatsiya, Dash)
        d3 == SetItem(d2, K_Period, Dash)
        d4 == SetItem(d3, K_Tsena, Dash)
        d5 == SetItem(d4, K_Dvigatel, Dash)
    IN  SetItem(d5, K_Kuzov, Dash)

\* the six assignments after a data row was appended
ResetTrim(d) ==
    LET d1 == SetItem(d, K_Komplektatsiya, Dash)
        d2 == SetItem(d1, K_Period, Dash)
        d3 == SetItem(d2, K_Tsena, Dash)
        d4 == SetItem(d3, K_Dvigatel, Dash)
        d5 == SetItem(d4, K_Kuzov, Dash)
    IN  SetItem(d5, K_TsenaStar, Dash)

HeaderIsMapped_KeepsCompare(header) == header # <<>>

\* if header and (not "Сравнить" in header)
HeaderIsMapped(header) == header # <<>> /\ ~ Contains(header, Sravnit)

\* value = column.text.strip(); value = re.sub(r'\s+', ' ', value)
CellValue(text) == CollapseWs(Strip(text))

\* for i, column in enumerate(columns): ... data[header] = value
\* (i counts from 1 here), from column i on
RECURSIVE MapCells(_, _, _, _)
MapCells(d, headers, columns, i) ==
    IF i > Len(columns) THEN d
    ELSE LET d2 == IF i <= Len(headers) /\ HeaderIsMapped(headers[i])
                   THEN SetItem(d, headers[i], CellValue(columns[i]))
                   ELSE d
         IN  MapCells(d2, headers, columns, i + 1)

\* the reference a fresh object gets
NewRef(h) == Len(h) + 1

CopyRef_Alias(h, r) == r

\* d.copy(): the reference of a new dict object
CopyRef(h, r) == NewRef(h)

\* the heap with dict d stored at reference r
Store(h, r, d) == [x \in 1..(IF r > Len(h) THEN r ELSE Len(h)) |-> IF x = r THEN d ELSE h[x]]

---------------------------------------------------------------------------
(* Bounds of the pages and of the number of threads *)

\* most <th> cells in the first row of a table
MaxHeaders == 2

\* most <td> cells in a row
MaxCells == 2

\* most rows after the first row of a table
MaxRows == 2

\* worker threads running parse_car_generation_page concurrently
NumWorkers == 2

---------------------------------------------------------------------------
(* Generation pages *)

\* The texts a <th> of the first row may hold: a trim field of the fixed
\* list ("Комплектация"), a column outside that list ("Мощность", with white
\* space around it), the comparison column ("Сравнить все"), a blank cell,
\* and columns named like an ancestor key ("Марка") and like the section
\* key ("Общее").
HeaderTexts ==
    { <<"Komplektatsiya">>,
      <<" ", "Moshchnost", "\n">>,
      <<"Sravnit", " ", "vse">>,
      <<" ">>,
      <<"Marka">>,
      <<"Obshchee">> }

\* the text of the c-th <td> of the r-th row: different for every cell, with
\* white space to strip and to collapse
CellText(r, c) == <<"\n", "r" \o ToString(r), " ", "\n", "c" \o ToString(c), " ">>

\* the text of the <th colspan> of the r-th row
LabelText(r) == <<" ", "Razdel" \o ToString(r), "\n">>

\* a row with a <th colspan=...>
SectionRow(r) == [th |-> <<LabelText(r)>>, tds |-> <<>>]

\* a row of n <td> cells and no <th colspan>
DataRow(r, n) == [th |-> <<>>, tds |-> [c \in 1..n |-> CellText(r, c)]]

\* rows[1:] of a table, from a choice per row: MaxCells + 1 for a section
\* row, n <= MaxCells for a data row of n cells
Body(choice) ==
    [r \in 1..Len(choice) |->
        IF choice[r] = MaxCells + 1 THEN SectionRow(r) ELSE DataRow(r, choice[r])]

Bodies == UNION { {Body(ch) : ch \in [1..n -> 0..(MaxCells + 1)]} : n \in 0..MaxRows }

HeaderRows == UNION { [1..n -> HeaderTexts] : n \in 0..MaxHeaders }

\* fetch_url returns None for the page
PageUnreachable == [kind |-> "unreachable"]

\* the page has no <table class="b-table b-table_text-left">
PageNoTable == [kind |-> "notable"]

\* the page's table has no <tr>
PageNoRows == [kind |-> "norows"]

\* the page's table: the <th> texts of rows[0], and rows[1:]
PageTable(ths, body) == [kind |-> "table", ths |-> ths, body |-> body]

AllPages ==
    {PageUnreachable, PageNoTable, PageNoRows}
        \cup {PageTable(ths, body) : ths \in HeaderRows, body \in Bodies}

\* the pages of the concurrent specification: one of each kind, the table
\* with a section row and two data rows
SomePages ==
    { PageUnreachable, PageNoTable, PageNoRows,
      PageTable(<<<<"Komplektatsiya">>, <<" ", "Moshchnost", "\n">>>>,
                <<SectionRow(1), DataRow(2, 2), DataRow(3, 1)>>) }

\* the dict the parent stage hands to generation task t
Context(t) ==
    (K_TIP :> <<"legkovye">>) @@ (K_Marka :> <<"Toyota">>)
        @@ (K_Model :> <<"Corolla">>) @@ (K_Strana :> <<"Yaponiya">>)
        @@ (K_Opisanie :> <<"pokolenie", " ", ToString(t)>>)

---------------------------------------------------------------------------
(* Threads *)

NoFile == [kind |-> "nofile"]

\* a file that a failed write left behind
Corrupt == [kind |-> "corrupt"]

Xlsx(rows) == [kind |-> "xlsx", rows |-> rows]

\* The frame of a thread: its position, and the locals of
\* parse_car_generation_page (page: what the URL answers; data: the
\* reference of the dict argument; ctx: that dict at the call; headers; i:
\* the row of rows[1:] the for loop is at) and of save_data_to_excel (df;
\* ret: where the caller goes on).  built: the dicts the thread appended,
\* as they were at the append.
\* parent: the thread whose executor runs this one (-1: none).  exc: the
\* exception the thread's function is leaving with ("": none).  root: the
\* catalog root the main thread is at; how: the branch of the main block the
\* main thread ends through; sigint: the interrupt was delivered; saves: the
\* calls of save_data_to_excel the thread has returned from; logged: the
\* exceptions of its tasks the thread has caught and logged; busy: tasks
\* were unfinished when the interrupt was delivered; cut: the interrupt ended
\* an executor.shutdown(wait=True) before its end.
Frame(kind, pc, page, data, ctx) ==
    [kind |-> kind, pc |-> pc, page |-> page, data |-> data, ctx |-> ctx,
     headers |-> <<>>, i |-> 0, df |-> <<>>, ret |-> "", built |-> <<>>,
     parent |-> -1, exc |-> "", root |-> 0, how |-> "", sigint |-> FALSE,
     saves |-> 0, logged |-> 0, busy |-> FALSE, cut |-> FALSE]

Threads == DOMAIN thr

Workers == 1..NumWorkers

FetchIdle ==
    /\ attempt = 0 /\ fpc = "get" /\ fresult = Pending
    /\ gets = 0 /\ sleeps = 0 /\ slept = 0
    /\ seen = [k \in OutcomeKinds |-> 0]

\* one thread about to run parse_car_generation_page on any page
ParseInit ==
    /\ FetchIdle
    /\ all_data = <<>>
    /\ heap = <<Context(1)>>
    /\ file_lock = FALSE
    /\ last_save_time = 0
    /\ now \in {0, SAVE_INTERVAL}
    /\ file = NoFile
    /\ lastSave = NoSave
    /\ \E page \in AllPages :
          thr = (1 :> Frame("gen", "start", page, 1, Context(1)))

\* NumWorkers threads about to run parse_car_generation_page, each on its
\* own dict
GenInit ==
    /\ FetchIdle
    /\ all_data = <<>>
    /\ heap = [t \in Workers |-> Context(t)]
    /\ file_lock = FALSE
    /\ last_save_time = 0
    /\ now = 0
    /\ file = NoFile
    /\ lastSave = NoSave
    /\ \E pages \in [Workers -> SomePages] :
          thr = [t \in Workers |-> Frame("gen", "start", pages[t], t, Context(t))]

---------------------------------------------------------------------------
(* parse_car_generation_page *)

\* the dict that reference data of thread t points to
DataOf(t) == heap[thr[t].data]

\* number of dicts the threads have appended so far
RECURSIVE SumBuilt(_)
SumBuilt(ts) ==
    IF ts = {} THEN 0
    ELSE LET t == CHOOSE x \in ts : TRUE
         IN  Len(thr[t].built) + SumBuilt(ts \ {t})

TotalBuilt == SumBuilt(Threads)

\* response = fetch_url(car_generation_url) returns None: return
GenFetchFailed(t) ==
    /\ thr[t].kind = "gen" /\ thr[t].pc = "start"
    /\ thr[t].page = PageUnreachable
    /\ thr' = [thr EXCEPT ![t].pc = "done"]
    /\ UNCHANGED <<all_data, heap, file_lock, last_save_time, now, file, lastSave>>
    /\ UNCHANGED fetchVars

\* fetch_url returns the page and soup.find finds no table: the six
\* placeholders, then `if not table`
GenNoTable(t) ==
    /\ thr[t].kind = "gen" /\ thr[t].pc = "start"
    /\ thr[t].page.kind = "notable"
    /\ heap' = Store(heap, thr[t].data, SetPlaceholders(DataOf(t)))
    /\ thr' = [thr EXCEPT ![t].pc = "fb_lock"]
    /\ UNCHANGED <<all_data, file_lock, last_save_time, now, file, lastSave>>
    /\ UNCHANGED fetchVars

\* fetch_url returns the page and the table has no <tr>: the six
\* placeholders, then rows[0] raises IndexError, which leaves
\* parse_car_generation_page
GenTableNoRows(t) ==
    /\ thr[t].kind = "gen" /\ thr[t].pc = "start"
    /\ thr[t].page.kind = "norows"
    /\ heap' = Store(heap, thr[t].data, SetPlaceholders(DataOf(t)))
    /\ thr' = [thr EXCEPT ![t].pc = "raised"]
    /\ UNCHANGED <<all_data, file_lock, last_save_time, now, file, lastSave>>
    /\ UNCHANGED fetchVars

\* fetch_url returns the page and the table has rows: the six placeholders,
\* then headers = [header.text.strip() for header in rows[0].find_all('th')]
GenTableHeaders(t) ==
    /\ thr[t].kind = "gen" /\ thr[t].pc = "start"
    /\ thr[t].page.kind = "table"
    /\ heap' = Store(heap, thr[t].data, SetPlaceholders(DataOf(t)))
    /\ thr' = [thr EXCEPT ![t].pc = "row",
                          ![t].headers = [j \in 1..Len(thr[t].page.ths) |->
                                             Strip(thr[t].page.ths[j])],
                          ![t].i = 1]
    /\ UNCHANGED <<all_data, file_lock, last_save_time, now, file, lastSave>>
    /\ UNCHANGED fetchVars

\* `with file_lock:` of the fallback, entered
GenFallbackAcquire(t) ==
    /\ thr[t].pc = "fb_lock"
    /\ ~ file_lock
    /\ file_lock' = TRUE
    /\ thr' = [thr EXCEPT ![t].pc = "fb_append"]
    /\ UNCHANGED <<all_data, heap, last_save_time, now, file, lastSave>>
    /\ UNCHANGED fetchVars

GenFallbackAppend_KeepsLock(t) ==
    /\ thr[t].pc = "fb_append"
    /\ LET ref == CopyRef(heap, thr[t].data)
       IN  /\ heap' = Store(heap, ref, DataOf(t))
           /\ all_data' = Append(all_data, ref)
    /\ file_lock' = TRUE
    /\ thr' = [thr EXCEPT ![t].pc = "done",
                          ![t].built = Append(@, DataOf(t))]
    /\ UNCHANGED <<last_save_time, now, file, lastSave>>
    /\ UNCHANGED fetchVars

\* all_data.append(data.copy()), the lock released, return
GenFallbackAppend(t) ==
    /\ thr[t].pc = "fb_append"
    /\ LET ref == CopyRef(heap, thr[t].data)
       IN  /\ heap' = Store(heap, ref, DataOf(t))
           /\ all_data' = Append(all_data, ref)
    /\ file_lock' = FALSE
    /\ thr' = [thr EXCEPT ![t].pc = "done",
                          ![t].built = Append(@, DataOf(t))]
    /\ UNCHANGED <<last_save_time, now, file, lastSave>>
    /\ UNCHANGED fetchVars

\* the row the for loop of thread t is at
RowOf(t) == thr[t].page.body[thr[t].i]

SectionLabel_FromHeader(t) == IF thr[t].headers = <<>> THEN Dash ELSE thr[t].headers[1]

\* th.text.strip() of the row's <th colspan>
SectionLabel(t) == Strip(RowOf(t).th[1])

\* a row with a <th colspan>: data["Общее"] = th.text.strip(); continue
GenSectionRow(t) ==
    /\ thr[t].pc = "row"
    /\ thr[t].i <= Len(thr[t].page.body)
    /\ RowOf(t).th # <<>>
    /\ heap' = Store(heap, thr[t].data, SetItem(DataOf(t), K_Obshchee, SectionLabel(t)))
    /\ thr' = [thr EXCEPT ![t].i = @ + 1]
    /\ UNCHANGED <<all_data, file_lock, last_save_time, now, file, lastSave>>
    /\ UNCHANGED fetchVars

\* a data row: the cells are written into data under their headers
GenDataRow(t) ==
    /\ thr[t].pc = "row"
    /\ thr[t].i <= Len(thr[t].page.body)
    /\ RowOf(t).th = <<>>
    /\ heap' = Store(heap, thr[t].data,
                     MapCells(DataOf(t), thr[t].headers, RowOf(t).tds, 1))
    /\ thr' = [thr EXCEPT ![t].pc = "row_lock"]
    /\ UNCHANGED <<all_data, file_lock, last_save_time, now, file, lastSave>>
    /\ UNCHANGED fetchVars

GenRowAcquire_NoWait(t) ==
    /\ thr[t].pc = "row_lock"
    /\ file_lock' = TRUE
    /\ thr' = [thr EXCEPT ![t].pc = "row_append"]
    /\ UNCHANGED <<all_data, heap, last_save_time, now, file, lastSave>>
    /\ UNCHANGED fetchVars

\* `with file_lock:` of a data row, entered
GenRowAcquire(t) ==
    /\ thr[t].pc = "row_lock"
    /\ ~ file_lock
    /\ file_lock' = TRUE
    /\ thr' = [thr EXCEPT ![t].pc = "row_append"]
    /\ UNCHANGED <<all_data, heap, last_save_time, now, file, lastSave>>
    /\ UNCHANGED fetchVars

GenRowAppend_Prepend(t) ==
    /\ thr[t].pc = "row_append"
    /\ LET ref == CopyRef(heap, thr[t].data)
           h1 == Store(heap, ref, DataOf(t))
       IN  /\ heap' = Store(h1, thr[t].data, ResetTrim(h1[thr[t].data]))
           /\ all_data' = <<ref>> \o all_data
    /\ file_lock' = FALSE
    /\ thr' = [thr EXCEPT ![t].pc = "row",
                          ![t].i = @ + 1,
                          ![t].built = Append(@, DataOf(t))]
    /\ UNCHANGED <<last_save_time, now, file, lastSave>>
    /\ UNCHANGED fetchVars

\* all_data.append(data.copy()), the lock released, the six fields reset,
\* on to the next row
GenRowAppend(t) ==
    /\ thr[t].pc = "row_append"
    /\ LET ref == CopyRef(heap, thr[t].data)
           h1 == Store(heap, ref, DataOf(t))
       IN  /\ heap' = Store(h1, thr[t].data, ResetTrim(h1[thr[t].data]))
           /\ all_data' = Append(all_data, ref)
    /\ file_lock' = FALSE
    /\ thr' = [thr EXCEPT ![t].pc = "row",
                          ![t].i = @ + 1,
                          ![t].built = Append(@, DataOf(t))]
    /\ UNCHANGED <<last_save_time, now, file, lastSave>>
    /\ UNCHANGED fetchVars

\* if time.time() - last_save_time >= SAVE_INTERVAL
SaveIsDue == now - last_save_time >= SAVE_INTERVAL

\* after the last row: data["Общее"] = "-", then the periodic save if it is
\* due (save_data_to_excel is called), else return
GenRowsEnd(t) ==
    /\ thr[t].pc = "row"
    /\ thr[t].i > Len(thr[t].page.body)
    /\ heap' = Store(heap, thr[t].data, SetItem(DataOf(t), K_Obshchee, Dash))
    /\ thr' = [thr EXCEPT ![t].pc = IF SaveIsDue THEN "save_lock" ELSE "done",
                          ![t].ret = IF SaveIsDue THEN "set_time" ELSE @]
    /\ UNCHANGED <<all_data, file_lock, last_save_time, now, file, lastSave>>
    /\ UNCHANGED fetchVars

\* last_save_time = time.time(), return
GenSetTime(t) ==
    /\ thr[t].pc = "set_time"
    /\ last_save_time' = now
    /\ thr' = [thr EXCEPT ![t].pc = "done"]
    /\ UNCHANGED <<all_data, heap, file_lock, now, file, lastSave>>
    /\ UNCHANGED fetchVars

---------------------------------------------------------------------------
(* save_data_to_excel *)

\* `with file_lock:` of save_data_to_excel, entered
SaveAcquire(t) ==
    /\ thr[t].pc = "save_lock"
    /\ ~ file_lock
    /\ file_lock' = TRUE
    /\ thr' = [thr EXCEPT ![t].pc = "save_df"]
    /\ UNCHANGED <<all_data, heap, last_save_time, now, file, lastSave>>
    /\ UNCHANGED fetchVars

\* pd.DataFrame(all_data): one row per dict of the list, in order
DataFrame(acc, h) == [j \in 1..Len(acc) |-> h[acc[j]]]

\* df = pd.DataFrame(all_data)
SaveSnapshot(t) ==
    /\ thr[t].pc = "save_df"
    /\ thr' = [thr EXCEPT ![t].pc = "save_write",
                          ![t].df = DataFrame(all_data, heap)]
    /\ UNCHANGED <<all_data, heap, file_lock, last_save_time, now, file, lastSave>>
    /\ UNCHANGED fetchVars

\* what is kept of a finished save: whether the file was written, the rows
\* of the DataFrame, the length of all_data and the number of appends made
\* when it finished, whether it is the first save (n = 1) or a later one
\* (n = 2), and ok, rows and made of the save before it
LogEntry(t, ok) ==
    [ok |-> ok, rows |-> Len(thr[t].df), len |-> Len(all_data),
     made |-> TotalBuilt, n |-> IF lastSave.n = 0 THEN 1 ELSE 2,
     prevOk |-> lastSave.ok, prevRows |-> lastSave.rows,
     prevMade |-> lastSave.made]

SaveWriteOk_Flush(t) ==
    /\ thr[t].pc = "save_write"
    /\ file' = Xlsx(thr[t].df)
    /\ all_data' = <<>>
    /\ lastSave' = LogEntry(t, TRUE)
    /\ file_lock' = FALSE
    /\ thr' = [thr EXCEPT ![t].pc = thr[t].ret, ![t].df = <<>>,
                          ![t].saves = thr[t].saves + 1]
    /\ UNCHANGED <<heap, last_save_time, now>>
    /\ UNCHANGED fetchVars

\* df.to_excel(FILENAME, ...) writes the file; the lock released, return
SaveWriteOk(t) ==
    /\ thr[t].pc = "save_write"
    /\ file' = Xlsx(thr[t].df)
    /\ lastSave' = LogEntry(t, TRUE)
    /\ file_lock' = FALSE
    /\ thr' = [thr EXCEPT ![t].pc = thr[t].ret, ![t].df = <<>>,
                          ![t].saves = thr[t].saves + 1]
    /\ UNCHANGED <<all_data, heap, last_save_time, now>>
    /\ UNCHANGED fetchVars

SaveWriteFails_Raises(t) ==
    /\ thr[t].pc = "save_write"
    /\ file' \in {file, Corrupt}
    /\ lastSave' = LogEntry(t, FALSE)
    /\ file_lock' = FALSE
    /\ thr' = [thr EXCEPT ![t].pc = "raised", ![t].df = <<>>]
    /\ UNCHANGED <<all_data, heap, last_save_time, now>>
    /\ UNCHANGED fetchVars

\* df.to_excel raises: the file is as it was, or what the failed write left
\* of it; the exception is logged, the lock released, return
SaveWriteFails(t) ==
    /\ thr[t].pc = "save_write"
    /\ file' \in {file, Corrupt}
    /\ lastSave' = LogEntry(t, FALSE)
    /\ file_lock' = FALSE
    /\ thr' = [thr EXCEPT ![t].pc = thr[t].ret, ![t].df = <<>>,
                          ![t].saves = thr[t].saves + 1]
    /\ UNCHANGED <<all_data, heap, last_save_time, now>>
    /\ UNCHANGED fetchVars

---------------------------------------------------------------------------
(* Time, and the specifications of parse_car_generation_page *)

\* SAVE_INTERVAL seconds pass.  The clock is read by time.time() only, in
\* `if time.time() - last_save_time >= SAVE_INTERVAL` and in
\* `last_save_time = time.time()`, so the time that passed is taken when a
\* thread is inside the function that reads it: earlier ticks lead to the
\* same reads.
Tick ==
    /\ now = 0
    /\ \E x \in DOMAIN thr : thr[x].pc \in {"row", "set_time"}
    /\ now' = now + SAVE_INTERVAL
    /\ UNCHANGED <<all_data, heap, file_lock, last_save_time, file, thr, lastSave>>
    /\ UNCHANGED fetchVars

ParseNext ==
    \E t \in {1} :
        \/ GenFetchFailed(t)
        \/ GenNoTable(t)
        \/ GenTableNoRows(t)
        \/ GenTableHeaders(t)
        \/ GenFallbackAcquire(t)
        \/ GenFallbackAppend(t)
        \/ GenSectionRow(t)
        \/ GenDataRow(t)
        \/ GenRowAcquire(t)
        \/ GenRowAppend(t)
        \/ GenRowsEnd(t)
        \/ GenSetTime(t)
        \/ SaveAcquire(t)
        \/ SaveSnapshot(t)
        \/ SaveWriteOk(t)
        \/ SaveWriteFails(t)

SpecParse == ParseInit /\ [][ParseNext]_vars

GenNext ==
    \/ \E t \in Workers :
        \/ GenFetchFailed(t)
        \/ GenNoTable(t)
        \/ GenTableNoRows(t)
        \/ GenTableHeaders(t)
        \/ GenFallbackAcquire(t)
        \/ GenFallbackAppend(t)
        \/ GenSectionRow(t)
        \/ GenDataRow(t)
        \/ GenRowAcquire(t)
        \/ GenRowAppend(t)
        \/ GenRowsEnd(t)
        \/ GenSetTime(t)
        \/ SaveAcquire(t)
        \/ SaveSnapshot(t)
        \/ SaveWriteOk(t)
        \/ SaveWriteFails(t)
    \/ Tick

SpecGen == GenInit /\ [][GenNext]_vars

---------------------------------------------------------------------------
(* Claims about parse_car_generation_page and save_data_to_excel *)

\* the dicts of all_data, in order
Records == DataFrame(all_data, heap)

\* thread t has left parse_car_generation_page (by return or by exception)
Finished(t) == thr[t].pc \in {"done", "raised"}

IsDataRow(row) == row.th = <<>>

\* the positions in body of its data rows, in order
DataRowsOf(body) ==
    SelectSeq([r \in 1..Len(body) |-> r], LAMBDA r : IsDataRow(body[r]))

\* the Records a page is to produce: none when it cannot be fetched (or its
\* table has no row at all), one when it has no table, one per data row
ExpectedCount(page) ==
    IF page.kind = "notable" THEN 1
    ELSE IF page.kind = "table" THEN Len(DataRowsOf(page.body))
    ELSE 0

RECURSIVE SumExpected(_)
SumExpected(ts) ==
    IF ts = {} THEN 0
    ELSE LET t == CHOOSE x \in ts : TRUE
         IN  ExpectedCount(thr[t].page) + SumExpected(ts \ {t})

\* the Records of all_data that carry the generation of task t, in order
RecordsOf(t) ==
    SelectSeq(Records, LAMBDA rec : K_Opisanie \in DOMAIN rec
                                    /\ rec[K_Opisanie] = Context(t)[K_Opisanie])

\* C5: under every interleaving of the workers no appended Record is lost
\* and none is partially written: all_data holds as many Records as were
\* appended, the Records of each task are in all_data exactly as that task
\* built them, and once all tasks have finished the length of all_data is
\* the sum of the Records their pages are to produce.
C5_NoLostRecord ==
    /\ Len(all_data) = TotalBuilt
    /\ \A t \in Workers : RecordsOf(t) = thr[t].built
    /\ (\A t \in Workers : Finished(t)) =>
            Len(all_data) = SumExpected(Workers)

\* all tasks have finished, and the appends of two tasks were interleaved
C5_Witness ==
    /\ \A t \in Workers : Finished(t)
    /\ Len(all_data) >= 3
    /\ \E i, j, k \in 1..Len(all_data) :
          /\ i < j /\ j < k
          /\ Records[i][K_Opisanie] = Records[k][K_Opisanie]
          /\ Records[i][K_Opisanie] # Records[j][K_Opisanie]

\* the six fields that lines 174-179 set to the placeholder
TrimKeys == {K_Obshchee, K_Komplektatsiya, K_Period, K_Tsena, K_Dvigatel, K_Kuzov}

\* C6: a fetched page with no matching table appends exactly one Record;
\* in it the six trim fields hold "-" and every ancestor field is present
\* with the value the parent stage passed in.
C6_NoTableFallback ==
    thr[1].page.kind = "notable" =>
        /\ Len(all_data) <= 1
        /\ Len(all_data) = 1 =>
            /\ \A k \in TrimKeys : k \in DOMAIN Records[1] /\ Records[1][k] = Dash
            /\ \A k \in AncestorKeys :
                  k \in DOMAIN Records[1] /\ Records[1][k] = thr[1].ctx[k]
            /\ DOMAIN Records[1] = TrimKeys \cup AncestorKeys
        /\ Finished(1) => (Len(all_data) = 1 /\ thr[1].pc = "done")

C6_Witness ==
    thr[1].page.kind = "notable" /\ thr[1].pc = "done" /\ Len(all_data) = 1

\* the page of the one task of SpecParse is a table
TablePage == thr[1].page.kind = "table"

\* ... with no section-header row
NoSectionRow == \A r \in 1..Len(thr[1].page.body) : IsDataRow(thr[1].page.body[r])

\* the stripped text of the j-th header of the table
HeaderKey(j) == Strip(thr[1].page.ths[j])

\* a header that names a field: not blank, and without the comparison label
IsFieldName(key) == key # <<>> /\ ~ Contains(key, Sravnit)

\* the cells of the data row that the n-th Record was appended for
CellsOfRecord(n) == thr[1].page.body[DataRowsOf(thr[1].page.body)[n]].tds

Min(a, b) == IF a <= b THEN a ELSE b

Max(S) == CHOOSE x \in S : \A y \in S : y <= x

\* C7 as stated: a table with H headers and R data rows and no section row
\* gives exactly R Records, one per data row in row order, each holding the
\* field of its row for every one of the H headers (bar the comparison
\* column, which is no key of any Record) plus the ancestor context.
C7_AsStated ==
    (TablePage /\ NoSectionRow /\ thr[1].pc = "done") =>
        /\ Len(all_data) = Len(thr[1].page.body)
        /\ \A n \in 1..Len(all_data) :
            /\ \A j \in 1..Len(thr[1].page.ths) :
                  IsFieldName(HeaderKey(j)) =>
                      /\ j <= Len(CellsOfRecord(n))
                      /\ HeaderKey(j) \in DOMAIN Records[n]
                      /\ Records[n][HeaderKey(j)] = CellValue(CellsOfRecord(n)[j])
            /\ \A k \in AncestorKeys :
                  k \in DOMAIN Records[n] /\ Records[n][k] = thr[1].ctx[k]
            /\ \A k \in DOMAIN Records[n] : ~ Contains(k, Sravnit)

\* C7 (amended): a table with H headers and R data rows and no section row
\* gives exactly R Records, one per data row in row order.  The Record of a
\* row holds, for every column at which the row has a cell and whose
\* stripped header is not blank and does not contain the comparison label,
\* the white-space-normalised text of that cell under that header (of the
\* last such cell when header names repeat); every ancestor field whose key
\* is not a header of the table is present with its value unchanged; no
\* Record has a key containing the comparison label.
C7_DataRows ==
    (TablePage /\ NoSectionRow) =>
        /\ Len(all_data) <= Len(thr[1].page.body)
        /\ thr[1].pc = "done" => Len(all_data) = Len(thr[1].page.body)
        /\ \A n \in 1..Len(all_data) :
            LET cells == CellsOfRecord(n)
                cols == 1..Min(Len(thr[1].page.ths), Len(cells))
                last(j) == Max({j2 \in cols : HeaderKey(j2) = HeaderKey(j)})
            IN  /\ \A j \in cols :
                      IsFieldName(HeaderKey(j)) =>
                          /\ HeaderKey(j) \in DOMAIN Records[n]
                          /\ Records[n][HeaderKey(j)] = CellValue(cells[last(j)])
                /\ \A k \in AncestorKeys :
                      /\ k \in DOMAIN Records[n]
                      /\ k \notin {HeaderKey(j) : j \in 1..Len(thr[1].page.ths)}
                            => Records[n][k] = thr[1].ctx[k]
                /\ \A k \in DOMAIN Records[n] : ~ Contains(k, Sravnit)

\* two data rows of two cells under a field column and the comparison
\* column, both appended
C7_Witness ==
    /\ TablePage /\ NoSectionRow /\ thr[1].pc = "done"
    /\ thr[1].page.ths = <<<<"Komplektatsiya">>, <<"Sravnit", " ", "vse">>>>
    /\ Len(all_data) = 2
    /\ \A n \in 1..2 : Len(CellsOfRecord(n)) = 2
    /\ Records[1][K_Komplektatsiya] = <<"r1", " ", "c1">>
    /\ Records[2][K_Komplektatsiya] = <<"r2", " ", "c1">>

\* the section rows before row r of the table
SectionsBefore(r) == {s \in 1..(r - 1) : ~ IsDataRow(thr[1].page.body[s])}

\* C8: a section-header row appends no Record, and the Record of every later
\* data row, up to the next section-header row, carries the label of that
\* row in its section field.
C8_SectionLabel ==
    TablePage =>
        /\ Len(all_data) <= Len(DataRowsOf(thr[1].page.body))
        /\ thr[1].pc = "done" => Len(all_data) = Len(DataRowsOf(thr[1].page.body))
        /\ \A n \in 1..Len(all_data) :
            LET r == DataRowsOf(thr[1].page.body)[n] IN
            SectionsBefore(r) # {} =>
                /\ K_Obshchee \in DOMAIN Records[n]
                /\ Records[n][K_Obshchee] =
                      Strip(thr[1].page.body[Max(SectionsBefore(r))].th[1])

\* the table has a column headed like the section key
HasSectionColumn == \E j \in 1..Len(thr[1].page.ths) : HeaderKey(j) = K_Obshchee

\* C8 holds of every table that has no column headed like the section key
C8_WithoutSectionColumn == (TablePage /\ ~ HasSectionColumn) => C8_SectionLabel

\* thread t is inside the `with file_lock:` of save_data_to_excel
InSave(t) == thr[t].pc \in {"save_df", "save_write"}

\* C9: save_data_to_excel is idempotent with respect to all_data: no step of
\* a save changes all_data or a dict in it; a save that succeeds writes a
\* file with one data row per element all_data has at that moment; and when
\* a save that succeeds follows one that succeeded with no append made
\* between them, it writes the same number of rows, from an all_data of the
\* same length.
C9_SaveIdempotent ==
    [][ \A t \in Workers :
          /\ (InSave(t) /\ thr'[t].pc # thr[t].pc) =>
                (all_data' = all_data /\ Records' = Records)
          /\ (thr[t].pc = "save_write" /\ thr'[t].pc # "save_write") =>
                /\ lastSave'.ok =>
                      /\ file' = Xlsx(Records)
                      /\ lastSave'.rows = Len(all_data)
                /\ (lastSave.n > 0 /\ lastSave.ok /\ lastSave'.ok
                        /\ lastSave'.made = lastSave.made) =>
                      /\ lastSave'.rows = lastSave.rows
                      /\ Len(all_data') = lastSave.len
      ]_vars

\* two saves in a row that both succeeded, with Records in all_data and no
\* append between them
C9_Witness ==
    /\ lastSave.n = 2 /\ lastSave.ok /\ lastSave.prevOk
    /\ lastSave.made = lastSave.prevMade
    /\ lastSave.rows > 0
    /\ lastSave.rows = lastSave.prevRows
    /\ file = Xlsx(Records)

----------------------------------------------------------------------------
(* The main block and the stages above parse_car_generation_page *)

\* THREAD_POOL_SIZE = 3
THREAD_POOL_SIZE == 3

\* most tasks submitted to executors in one run
MaxTasks == 3

\* the main thread
MainId == 0

TaskIds == 0..MaxTasks

\* parse_catalog_page (run by the main thread), parse_brand_page and
\* parse_car_model_page
StageKinds == {"catalog", "brand", "model"}

\* the function a stage submits: parse_brand_page, parse_car_model_page,
\* parse_car_generation_page
ChildKind(kind) ==
    IF kind = "catalog" THEN "brand"
    ELSE IF kind = "brand" THEN "model" ELSE "gen"

\* a page of a stage: what matters of it is drawn when the stage reads it
StagePage == [kind |-> "stage"]

\* the generation pages of the runs of the main block
MainPages ==
    { PageUnreachable, PageNoTable, PageNoRows,
      PageTable(<<<<"Komplektatsiya">>>>, <<SectionRow(1), DataRow(2, 1)>>) }

\* a slot of thr no task was submitted for yet
FreeFrame == Frame("none", "free", StagePage, 0, <<>>)

\* the main thread about to call parse_catalog_page(BASE_URL)
MainInit ==
    /\ FetchIdle
    /\ all_data = <<>>
    /\ heap = <<>>
    /\ file_lock = FALSE
    /\ last_save_time = 0
    /\ now = 0
    /\ file = NoFile
    /\ lastSave = NoSave
    /\ thr = [t \in TaskIds |->
                IF t = MainId
                THEN [Frame("catalog", "start", StagePage, 0, <<>>) EXCEPT !.root = 1]
                ELSE FreeFrame]

FreeIds == {c \in DOMAIN thr : thr[c].pc = "free"}

\* the tasks are numbered in the order of their submission
NextTask == CHOOSE c \in FreeIds : \A x \in FreeIds : c <= x

\* the dict of the c-th task, submitted by stage t:
\*   {"ТИП": car_type, "Марка": car_brand}                      (catalog)
\*   model_data = data.copy(); model_data["Модель"] = ...        (brand)
\*   country_data = data.copy(); country_data["Для какой страны"] = ...;
\*   generation_data = country_data.copy();
\*   generation_data["Описание 1"] = description                 (model)
\* (country_data is referenced by nothing but the loop; only its copy is
\* kept)
ChildDict(t, c) ==
    IF thr[t].kind = "catalog"
    THEN (K_TIP :> <<"tip" \o ToString(thr[t].root)>>)
             @@ (K_Marka :> <<"marka" \o ToString(c)>>)
    ELSE IF thr[t].kind = "brand"
    THEN SetItem(heap[thr[t].data], K_Model, <<"model" \o ToString(c)>>)
    ELSE SetItem(SetItem(heap[thr[t].data], K_Strana, <<"strana">>),
                 K_Opisanie, <<"pokolenie", " ", ToString(c)>>)

ChildRef_Shared(t) ==
    IF thr[t].kind = "catalog" THEN NewRef(heap) ELSE thr[t].data

\* the reference of that dict: a dict display, or a .copy()
ChildRef(t) ==
    IF thr[t].kind = "catalog" THEN NewRef(heap) ELSE CopyRef(heap, thr[t].data)

ChildPages(kind) == IF ChildKind(kind) = "gen" THEN MainPages ELSE {StagePage}

\* every task stage t submitted has left its function
AllChildrenFinished(t) ==
    \A c \in DOMAIN thr : thr[c].parent = t => thr[c].pc \in {"done", "raised"}

\* the tasks stage t submitted that an exception has left
RaisedChildren(t) ==
    {c \in DOMAIN thr : thr[c].parent = t /\ thr[c].pc = "raised"}

\* response = fetch_url(url) returns None: return
StageFetchFailed(t) ==
    /\ thr[t].kind \in StageKinds /\ thr[t].pc = "start"
    /\ thr' = [thr EXCEPT ![t].pc = "done"]
    /\ UNCHANGED <<all_data, heap, file_lock, last_save_time, now, file, lastSave>>
    /\ UNCHANGED fetchVars

\* fetch_url returns the page; the links are found and
\* `with ThreadPoolExecutor(max_workers=THREAD_POOL_SIZE) as executor` is
\* entered
StageFetchOk(t) ==
    /\ thr[t].kind \in StageKinds /\ thr[t].pc = "start"
    /\ thr' = [thr EXCEPT ![t].pc = "submit"]
    /\ UNCHANGED <<all_data, heap, file_lock, last_save_time, now, file, lastSave>>
    /\ UNCHANGED fetchVars

\* one turn of the loop over the links: the child's dict is made and
\* executor.submit(...) queues the task
StageSubmit(t) ==
    /\ thr[t].kind \in StageKinds /\ thr[t].pc = "submit"
    /\ FreeIds # {}
    /\ \E page \in ChildPages(thr[t].kind) :
          LET c == NextTask
              r == ChildRef(t)
              d == ChildDict(t, c)
          IN  /\ heap' = Store(heap, r, d)
              /\ thr' = [thr EXCEPT ![c] =
                            [Frame(ChildKind(thr[t].kind), "queued", page, r, d)
                                EXCEPT !.parent = t]]
    /\ UNCHANGED <<all_data, file_lock, last_save_time, now, file, lastSave>>
    /\ UNCHANGED fetchVars

\* a turn of the loop raises (link.get("href") is None, or country_name is
\* None): the with block is left by the exception, and its __exit__ is
\* executor.shutdown(wait=True)
StageSubmitRaises(t) ==
    /\ thr[t].kind \in StageKinds /\ thr[t].pc = "submit"
    /\ thr' = [thr EXCEPT ![t].pc = "join", ![t].exc = "Exception"]
    /\ UNCHANGED <<all_data, heap, file_lock, last_save_time, now, file, lastSave>>
    /\ UNCHANGED fetchVars

\* the loop over the links ends: `for future in as_completed(futures)`
StageSubmitted(t) ==
    /\ thr[t].kind \in StageKinds /\ thr[t].pc = "submit"
    /\ thr' = [thr EXCEPT ![t].pc = "wait"]
    /\ UNCHANGED <<all_data, heap, file_lock, last_save_time, now, file, lastSave>>
    /\ UNCHANGED fetchVars

StageWaitDone_Reraises(t) ==
    /\ thr[t].kind \in StageKinds /\ thr[t].pc = "wait"
    /\ AllChildrenFinished(t)
    /\ thr' = [thr EXCEPT ![t].pc = IF RaisedChildren(t) = {} THEN "done" ELSE "raised",
                          ![t].exc = IF RaisedChildren(t) = {} THEN "" ELSE "Exception"]
    /\ UNCHANGED <<all_data, heap, file_lock, last_save_time, now, file, lastSave>>
    /\ UNCHANGED fetchVars

\* as_completed has yielded every future, future.result() returned or its
\* exception was caught and logged; the with block is left and the stage
\* returns
StageWaitDone(t) ==
    /\ thr[t].kind \in StageKinds /\ thr[t].pc = "wait"
    /\ AllChildrenFinished(t)
    /\ thr' = [thr EXCEPT ![t].pc = "done",
                          ![t].logged = Cardinality(RaisedChildren(t))]
    /\ UNCHANGED <<all_data, heap, file_lock, last_save_time, now, file, lastSave>>
    /\ UNCHANGED fetchVars

\* executor.shutdown(wait=True) has joined the workers: the exception that
\* left the with block leaves the stage
StageJoinDone(t) ==
    /\ thr[t].kind \in StageKinds /\ thr[t].pc = "join"
    /\ AllChildrenFinished(t)
    /\ thr' = [thr EXCEPT ![t].pc = "raised"]
    /\ UNCHANGED <<all_data, heap, file_lock, last_save_time, now, file, lastSave>>
    /\ UNCHANGED fetchVars

\* the tasks of c's executor that a worker thread is running
Running(c) ==
    {x \in DOMAIN thr : /\ thr[x].parent = thr[c].parent
                        /\ thr[x].pc \notin {"free", "queued", "done", "raised"}}

\* a worker thread of the executor takes the task from the queue: at most
\* THREAD_POOL_SIZE run at a time, in the order of submission
TaskStart(t) ==
    /\ thr[t].pc = "queued"
    /\ Cardinality(Running(t)) < THREAD_POOL_SIZE
    /\ \A x \in DOMAIN thr :
          (thr[x].parent = thr[t].parent /\ thr[x].pc = "queued") => t <= x
    /\ thr' = [thr EXCEPT ![t].pc = "start"]
    /\ UNCHANGED <<all_data, heap, file_lock, last_save_time, now, file, lastSave>>
    /\ UNCHANGED fetchVars

\* no submitted task is queued or running
AllTasksFinished ==
    \A c \in DOMAIN thr \ {MainId} : thr[c].pc \in {"free", "done", "raised"}

\* parse_catalog_page(BASE_URL) has returned:
\* BASE_URL = "https://www.drom.ru/catalog/lcv/"; parse_catalog_page(BASE_URL)
MainNextRoot ==
    /\ thr[MainId].pc = "done" /\ thr[MainId].root = 1
    /\ thr' = [thr EXCEPT ![MainId].pc = "start", ![MainId].root = 2]
    /\ UNCHANGED <<all_data, heap, file_lock, last_save_time, now, file, lastSave>>
    /\ UNCHANGED fetchVars

\* the second parse_catalog_page has returned: save_data_to_excel() of the
\* try body
MainFinalSave ==
    /\ thr[MainId].pc = "done" /\ thr[MainId].root = 2
    /\ thr' = [thr EXCEPT ![MainId].pc = "save_lock", ![MainId].ret = "exit",
                          ![MainId].how = "completed"]
    /\ UNCHANGED <<all_data, heap, file_lock, last_save_time, now, file, lastSave>>
    /\ UNCHANGED fetchVars

MainInterrupt_NoJoin ==
    /\ ~ thr[MainId].sigint
    /\ thr[MainId].pc \in {"start", "submit", "wait", "join", "done"}
    /\ thr' = [thr EXCEPT ![MainId].sigint = TRUE,
                          ![MainId].busy = ~ AllTasksFinished,
                          ![MainId].cut = (thr[MainId].pc = "join"),
                          ![MainId].exc = "KeyboardInterrupt",
                          ![MainId].pc = "raised"]
    /\ UNCHANGED <<all_data, heap, file_lock, last_save_time, now, file, lastSave>>
    /\ UNCHANGED fetchVars

\* KeyboardInterrupt is raised in the main thread while it runs
\* parse_catalog_page.  Inside the with block the exception first runs
\* executor.shutdown(wait=True); outside of it, and inside a shutdown that
\* another exception had started, it leaves parse_catalog_page at once.
MainInterrupt ==
    /\ ~ thr[MainId].sigint
    /\ thr[MainId].pc \in {"start", "submit", "wait", "join", "done"}
    /\ thr' = [thr EXCEPT ![MainId].sigint = TRUE,
                          ![MainId].busy = ~ AllTasksFinished,
                          ![MainId].cut = (thr[MainId].pc = "join"),
                          ![MainId].exc = "KeyboardInterrupt",
                          ![MainId].pc = IF thr[MainId].pc \in {"submit", "wait"}
                                         THEN "join" ELSE "raised"]
    /\ UNCHANGED <<all_data, heap, file_lock, last_save_time, now, file, lastSave>>
    /\ UNCHANGED fetchVars

\* KeyboardInterrupt is raised in the main thread while it runs
\* save_data_to_excel: `with file_lock` releases the lock it holds, a write
\* under way may leave a broken file.  Raised in the try body it reaches
\* `except KeyboardInterrupt`; raised in `except Exception` nothing catches
\* it.
MainInterruptInSave ==
    /\ ~ thr[MainId].sigint
    /\ thr[MainId].pc \in {"save_lock", "save_df", "save_write"}
    /\ file_lock' = IF thr[MainId].pc = "save_lock" THEN file_lock ELSE FALSE
    /\ file' \in IF thr[MainId].pc = "save_write" THEN {file, Corrupt} ELSE {file}
    /\ thr' = [thr EXCEPT ![MainId].sigint = TRUE,
                          ![MainId].busy = ~ AllTasksFinished,
                          ![MainId].exc = "KeyboardInterrupt",
                          ![MainId].df = <<>>,
                          ![MainId].pc = IF thr[MainId].how = "completed"
                                         THEN "raised" ELSE "killed"]
    /\ UNCHANGED <<all_data, heap, last_save_time, now, lastSave>>
    /\ UNCHANGED fetchVars

\* except KeyboardInterrupt: save_data_to_excel()
MainHandleInterrupt ==
    /\ thr[MainId].pc = "raised" /\ thr[MainId].exc = "KeyboardInterrupt"
    /\ thr' = [thr EXCEPT ![MainId].pc = "save_lock", ![MainId].ret = "exit",
                          ![MainId].how = "KeyboardInterrupt",
                          ![MainId].exc = ""]
    /\ UNCHANGED <<all_data, heap, file_lock, last_save_time, now, file, lastSave>>
    /\ UNCHANGED fetchVars

MainHandleException_NoSave ==
    /\ thr[MainId].pc = "raised" /\ thr[MainId].exc = "Exception"
    /\ thr' = [thr EXCEPT ![MainId].pc = "exit",
                          ![MainId].how = "Exception",
                          ![MainId].exc = ""]
    /\ UNCHANGED <<all_data, heap, file_lock, last_save_time, now, file, lastSave>>
    /\ UNCHANGED fetchVars

\* except Exception as e: save_data_to_excel()
MainHandleException ==
    /\ thr[MainId].pc = "raised" /\ thr[MainId].exc = "Exception"
    /\ thr' = [thr EXCEPT ![MainId].pc = "save_lock", ![MainId].ret = "exit",
                          ![MainId].how = "Exception",
                          ![MainId].exc = ""]
    /\ UNCHANGED <<all_data, heap, file_lock, last_save_time, now, file, lastSave>>
    /\ UNCHANGED fetchVars

MainNext ==
    \/ \E t \in TaskIds :
        \/ StageFetchFailed(t)
        \/ StageFetchOk(t)
        \/ StageSubmit(t)
        \/ StageSubmitRaises(t)
        \/ StageSubmitted(t)
        \/ StageWaitDone(t)
        \/ StageJoinDone(t)
        \/ TaskStart(t)
        \/ GenFetchFailed(t)
        \/ GenNoTable(t)
        \/ GenTableNoRows(t)
        \/ GenTableHeaders(t)
        \/ GenFallbackAcquire(t)
        \/ GenFallbackAppend(t)
        \/ GenSectionRow(t)
        \/ GenDataRow(t)
        \/ GenRowAcquire(t)
        \/ GenRowAppend(t)
        \/ GenRowsEnd(t)
        \/ GenSetTime(t)
        \/ SaveAcquire(t)
        \/ SaveSnapshot(t)
        \/ SaveWriteOk(t)
        \/ SaveWriteFails(t)
    \/ MainNextRoot
    \/ MainFinalSave
    \/ MainInterrupt
    \/ MainInterruptInSave
    \/ MainHandleInterrupt
    \/ MainHandleException
    \/ Tick

SpecMain == MainInit /\ [][MainNext]_vars

----------------------------------------------------------------------------
(* Claims about the main block *)

\* the main thread has left the main block: by its end ("exit"), or by a
\* KeyboardInterrupt raised inside the save of `except Exception` ("killed")
MainEnded == thr[MainId].pc \in {"exit", "killed"}

\* the step is the main thread's arrival at the end of the main block
MainExits == thr[MainId].pc # "exit" /\ thr'[MainId].pc = "exit"

\* C10: on every way the run ends (both roots completed, keyboard
\* interruption, an exception raised during the traversal) the main thread
\* has called save_data_to_excel once more after the traversal ended; it
\* reaches the end of the main block only by returning from that call, and
\* the DataFrame of that call holds every Record of all_data at that moment,
\* which is the content of the file when the write succeeded.
C10_FinalSave ==
    /\ [](MainEnded => thr[MainId].how \in {"completed", "KeyboardInterrupt", "Exception"})
    /\ [](thr[MainId].pc = "exit" => thr[MainId].saves >= 1)
    /\ [][MainExits =>
            /\ thr[MainId].pc = "save_write"
            /\ thr[MainId].how # ""
            /\ lastSave'.rows = Len(all_data)
            /\ lastSave'.len = Len(all_data)
            /\ (lastSave'.ok => file' = Xlsx(Records))]_vars

\* the run was interrupted from the keyboard with Records accumulated, and
\* the save of `except KeyboardInterrupt` wrote them
C10_Witness ==
    /\ thr[MainId].pc = "exit"
    /\ thr[MainId].how = "KeyboardInterrupt"
    /\ Len(all_data) > 0
    /\ lastSave.ok /\ lastSave.rows = Len(all_data)
    /\ file = Xlsx(Records)

\* both roots were traversed, and the save of the try body wrote the Records
C10_WitnessCompleted ==
    /\ thr[MainId].pc = "exit"
    /\ thr[MainId].how = "completed" /\ thr[MainId].root = 2
    /\ ~ thr[MainId].sigint
    /\ Len(all_data) > 0
    /\ lastSave.ok /\ file = Xlsx(Records)

\* an exception left the traversal, and the save of `except Exception`
\* wrote the Records
C10_WitnessException ==
    /\ thr[MainId].pc = "exit"
    /\ thr[MainId].how = "Exception"
    /\ Len(all_data) > 0
    /\ lastSave.ok /\ file = Xlsx(Records)

\* the interrupt arrived during the save of the try body, and the save of
\* `except KeyboardInterrupt` was made after it
C10_WitnessInterruptedSave ==
    /\ thr[MainId].pc = "exit"
    /\ thr[MainId].how = "KeyboardInterrupt" /\ thr[MainId].root = 2
    /\ Len(all_data) > 0
    /\ lastSave.ok /\ file = Xlsx(Records)

----------------------------------------------------------------------------
(* Claims about the periodic save and the paths of a generation task *)

\* the task of thread t has returned from a page with no table, or with a
\* table that has a first row, SAVE_INTERVAL seconds or more after the last
\* save (last_save_time starts at 0 and only this task sets it)
ReturnedWhenDue(t) ==
    /\ thr[t].kind = "gen" /\ thr[t].pc = "done"
    /\ thr[t].page.kind \in {"notable", "table"}
    /\ now >= SAVE_INTERVAL

\* C11: whenever a generation task finishes, its page having a table with
\* rows or no table, and SAVE_INTERVAL seconds or more have passed since the
\* last save, the task has called save_data_to_excel and has set
\* last_save_time to the current time.
C11_PeriodicSave ==
    ReturnedWhenDue(1) => (thr[1].saves = 1 /\ last_save_time = now)

\* the same for the pages with a table: the check of lines 218-220 is
\* reached after the loop over the rows
C11_AfterRows ==
    (ReturnedWhenDue(1) /\ thr[1].page.kind = "table")
        => (thr[1].saves = 1 /\ last_save_time = now)

\* the page has no table: the task returns at line 184, before the check
C11_NoTableReturnsEarly ==
    (ReturnedWhenDue(1) /\ thr[1].page.kind = "notable")
        => (thr[1].saves = 0 /\ last_save_time = 0 /\ Len(all_data) = 1)

C11_WitnessAfterRows ==
    /\ ReturnedWhenDue(1) /\ thr[1].page.kind = "table"
    /\ thr[1].saves = 1 /\ last_save_time = now

C11_WitnessNoTable ==
    ReturnedWhenDue(1) /\ thr[1].page.kind = "notable"

\* the state of the generation task of thread t, in the words of the state
\* machine Fetching -> (Failed -> Done) | ParsingTable -> {NoTable ->
\* EmitFallback -> Done | HasRows -> (rows) -> Done}; "Raised" when an
\* exception has left parse_car_generation_page
TaskState(t) ==
    IF thr[t].pc = "start" THEN "Fetching"
    ELSE IF thr[t].pc \in {"fb_lock", "fb_append"} THEN "EmitFallback"
    ELSE IF thr[t].pc = "done" THEN "Done"
    ELSE IF thr[t].pc = "raised" THEN "Raised"
    ELSE "HasRows"

\* the moves of the three paths
ListedMoves ==
    { <<"Fetching", "Done">>, <<"Fetching", "EmitFallback">>,
      <<"Fetching", "HasRows">>, <<"EmitFallback", "Done">>,
      <<"HasRows", "Done">> }

\* the step keeps the task where it is or is a move of a listed path
OnListedPath ==
    TaskState(1)' = TaskState(1) \/ <<TaskState(1), TaskState(1)'>> \in ListedMoves

\* C12: every generation task moves along one of the paths Fetching ->
\* Failed -> Done, Fetching -> ParsingTable -> NoTable -> EmitFallback ->
\* Done, Fetching -> ParsingTable -> HasRows -> (rows) -> Done, whatever the
\* page, a table with no rows included; it never fetches again (no move
\* leads back to Fetching) and it ends nowhere but in Done.
C12_ListedPaths ==
    /\ [][OnListedPath]_vars
    /\ [](thr[1].pc # "raised")

\* the same for every page but the table with no <tr>
C12_ExceptNoRows ==
    [][thr[1].page.kind # "norows" => OnListedPath]_vars

\* a table with no <tr>: rows[0] raises IndexError, no Record is appended
C12_NoRowsRaises ==
    thr[1].page.kind = "norows" =>
        /\ thr[1].pc \in {"start", "raised"}
        /\ all_data = <<>>

C12_WitnessRaised == thr[1].page.kind = "norows" /\ thr[1].pc = "raised"

\* the task of SpecParse is never held back: the lock is free whenever it
\* asks for it
FairParse == SpecParse /\ WF_vars(ParseNext)

\* the task ends, by return or by exception
C12_Ends == <>(thr[1].pc \in {"done", "raised"})

\* the task ends by return unless its table has no <tr>
C12_EndsInDone == <>(thr[1].pc = "done" \/ thr[1].page.kind = "norows")

----------------------------------------------------------------------------
(* Claims about the stages and their tasks *)

StageIds == {t \in TaskIds : thr[t].kind \in StageKinds}

\* stage t leaves its as_completed loop in this step
LeavesWait(t) == thr[t].pc = "wait" /\ thr'[t].pc # "wait"

\* the step takes task c out of its function by an exception
Raises(c) == thr[c].pc # "raised" /\ thr'[c].pc = "raised"

C13_WitnessGen ==
    \E t, c \in TaskIds :
        /\ thr[t].kind = "model" /\ thr[t].pc = "done" /\ thr[t].logged = 1
        /\ thr[c].parent = t /\ thr[c].kind = "gen" /\ thr[c].pc = "raised"

\* a task has raised while a sibling of it is still running
C13_WitnessSiblingRuns ==
    \E a, b \in TaskIds \ {MainId} :
        /\ a # b /\ thr[a].parent = thr[b].parent
        /\ thr[a].pc = "raised" /\ thr[b].pc \in {"start", "submit", "wait"}

----------------------------------------------------------------------------
(* Claims about the accumulator and the lock *)

\* sequence a is the beginning of sequence b
IsPrefix(a, b) == Len(a) <= Len(b) /\ \A j \in 1..Len(a) : a[j] = b[j]

\* thread t is at all_data.append(data.copy()) of the no-table fallback or
\* of a data row
AtAppend(t) ==
    \/ thr[t].pc = "fb_append" /\ thr[t].page.kind = "notable"
    \/ /\ thr[t].pc = "row_append" /\ thr[t].page.kind = "table"
       /\ IsDataRow(RowOf(t))

\* C14: every step of a task or of a save leaves the Records of all_data as
\* they were, in their order, at the beginning of all_data (none removed,
\* reordered or changed, also not by the later writes of a task into its
\* working dict), and all_data changes only by one Record added at its end,
\* by a thread that is at the append of a data row or of the no-table
\* fallback.
C14_AppendOnly ==
    [][/\ IsPrefix(all_data, all_data')
       /\ IsPrefix(Records, Records')
       /\ all_data' # all_data =>
            /\ Len(all_data') = Len(all_data) + 1
            /\ \E t \in Workers : AtAppend(t) /\ thr'[t].pc # thr[t].pc]_vars

\* Records are in all_data, a save has written them, and a task that
\* appended two of them has gone on writing into its working dict
C14_Witness ==
    /\ Len(all_data) >= 2
    /\ lastSave.ok /\ lastSave.rows >= 2
    /\ \E t \in Workers :
          /\ thr[t].pc = "done"
          /\ Len(thr[t].built) = 2
          /\ heap[thr[t].data] # thr[t].built[2]
          /\ \E j \in 1..Len(all_data) : Records[j] = thr[t].built[2]

----------------------------------------------------------------------------
(* Claims about the interrupt and the tasks in flight *)

\* the main thread is in, or past, the save of `except KeyboardInterrupt`
InInterruptSave == thr[MainId].how = "KeyboardInterrupt"

\* C15, as the code has it: an interrupt delivered inside the with block of
\* the catalog stage first runs executor.shutdown(wait=True), which cancels
\* no task and waits for every one; the save of `except KeyboardInterrupt`
\* begins only when no task is queued or running, so its DataFrame holds
\* every Record that was appended and none is appended after it.  Only an
\* interrupt that ends a shutdown already started by another exception
\* (cut) lets the save run beside tasks in flight.
C15_JoinsBeforeSave ==
    /\ []((InInterruptSave /\ ~ thr[MainId].cut) => AllTasksFinished)
    /\ []((thr[MainId].pc = "exit" /\ InInterruptSave /\ ~ thr[MainId].cut)
            => (lastSave.rows = Len(all_data) /\ Len(all_data) = TotalBuilt))
    /\ [][\A c \in TaskIds :
            thr[c].pc = "queued" => thr'[c].pc \in {"queued", "start"}]_vars

\* the interrupt came while tasks were unfinished, they went on to append a
\* Record, and the save of `except KeyboardInterrupt` then wrote it
C15_Witness ==
    /\ thr[MainId].pc = "exit" /\ InInterruptSave
    /\ thr[MainId].busy /\ ~ thr[MainId].cut
    /\ Len(all_data) > 0
    /\ lastSave.ok /\ file = Xlsx(Records)

\* C15 as it is stated: when the run is interrupted while tasks are in
\* flight, the final save is performed without first joining them: the main
\* thread is never waiting for its tasks after the interrupt, and reaches the
\* save while they run.
C15_AsStated ==
    (thr[MainId].sigint /\ thr[MainId].busy /\ ~ AllTasksFinished)
        => thr[MainId].pc # "join"

\* the interrupt ended a shutdown that an exception of the link loop had
\* started: a Record was appended after the snapshot of the final save
C15_WitnessCut ==
    /\ thr[MainId].pc = "exit" /\ InInterruptSave /\ thr[MainId].cut
    /\ lastSave.rows < Len(all_data)

\* the lock orders that save against the appends: while the main thread
\* holds it no task is inside an append
C15_CutSaveLocked ==
    (thr[MainId].pc \in {"save_df", "save_write"})
        => /\ file_lock
           /\ \A c \in TaskIds \ {MainId} :
                 thr[c].pc \notin {"fb_append", "row_append", "save_df", "save_write"}

\* thread t is inside `with file_lock:` of an append or of
\* save_data_to_excel
InCritical(t) ==
    thr[t].pc \in {"fb_append", "row_append", "save_df", "save_write"}

\* thread t is at a `with file_lock:` it has not entered
AtLock(t) == thr[t].pc \in {"fb_lock", "row_lock", "save_lock"}

\* C16: file_lock excludes every append and the whole snapshot-and-write of
\* save_data_to_excel from each other: at most one thread is inside one of
\* them, and the lock is held exactly then; the DataFrame of a save has
\* every Record appended so far and nothing else; a thread enters only when
\* no thread is inside, so an append that arrives during a write waits.
C16_MutualExclusion ==
    /\ [](\A t, u \in Workers : (InCritical(t) /\ InCritical(u)) => t = u)
    /\ [](file_lock <=> \E t \in Workers : InCritical(t))
    /\ [](\A t \in Workers :
            thr[t].pc = "save_write" =>
                (Len(thr[t].df) = TotalBuilt /\ thr[t].df = Records))
    /\ [][\A t \in Workers :
            (AtLock(t) /\ thr'[t].pc # thr[t].pc) =>
                (~ file_lock /\ \A u \in Workers : ~ InCritical(u))]_vars

\* a task is at the append of a data row while another thread is writing
\* the file: it has not entered
C16_Witness ==
    \E t, u \in Workers :
        /\ thr[t].pc = "row_lock"
        /\ thr[u].pc = "save_write" /\ Len(thr[u].df) > 0
        /\ file_lock

\* the step is the end of a write of thread t that failed
WriteFailed(t) ==
    /\ thr[t].pc = "save_write" /\ thr'[t].pc # "save_write"
    /\ ~ lastSave'.ok

\* C17: a failed write of save_data_to_excel is logged and nothing more:
\* all_data and its Records are as they were, the lock is released, the
\* caller goes on where it called (the task to last_save_time =
\* time.time(), never out by an exception), and no other thread is touched,
\* so the appends and saves to come still happen.
C17_FailedWriteNonFatal ==
    /\ [][\A t \in Workers :
            WriteFailed(t) =>
                /\ all_data' = all_data /\ Records' = Records
                /\ ~ file_lock'
                /\ thr'[t].pc = thr[t].ret /\ thr'[t].pc = "set_time"
                /\ thr'[t].saves = thr[t].saves + 1
                /\ \A u \in Workers \ {t} : thr'[u] = thr[u]]_vars
    /\ [](\A t \in Workers :
            thr[t].pc = "raised" => thr[t].page.kind = "norows")

\* a write failed, Records were appended after it, and a later save wrote
\* all of them
C17_Witness ==
    /\ lastSave.n = 2 /\ ~ lastSave.prevOk
    /\ lastSave.ok /\ lastSave.rows > lastSave.prevRows
    /\ file = Xlsx(Records)

\* a write failed and a task appended a Record after it
C17_WitnessAppend ==
    /\ lastSave.n = 1 /\ ~ lastSave.ok
    /\ Len(all_data) > lastSave.len
    /\ \A t \in Workers : thr[t].pc = "done"

----------------------------------------------------------------------------
(* Claims about what one row's Record takes from the row before *)

\* the keys reset to "-" after the append of a data row
ResetKeys ==
    {K_Komplektatsiya, K_Period, K_Tsena, K_Dvigatel, K_Kuzov, K_TsenaStar}

\* the values that the cells of the n-th data row give to the field key
OwnValues(n, key) ==
    LET cells == CellsOfRecord(n)
    IN  {CellValue(cells[j]) :
            j \in {j2 \in 1..Min(Len(thr[1].page.ths), Len(cells)) :
                      HeaderKey(j2) = key}}

\* the header-mapped field key of the n-th Record comes from the n-th data
\* row's own cell or is the placeholder
FreshField(n, key) ==
    key \in DOMAIN Records[n] =>
        Records[n][key] \in OwnValues(n, key) \cup {Dash}

\* the keys of the table's headers that name a field, the section field
\* excepted
FieldKeys ==
    {HeaderKey(j) : j \in 1..Len(thr[1].page.ths)}
        \ ({k \in {HeaderKey(j) : j \in 1..Len(thr[1].page.ths)} : ~ IsFieldName(k)}
             \cup {K_Obshchee})

\* C18: within one table nothing but the running section label goes from
\* the Record of one data row to the Record of the next: every
\* header-mapped field of the later Record is the later row's own cell or
\* "-", also when the later row has fewer cells than there are headers and
\* for headers outside the fixed list of trim fields.
C18_NothingCarried ==
    TablePage =>
        \A n \in 2..Len(all_data) : \A key \in FieldKeys : FreshField(n, key)

\* the same for the six keys that lines 209-214 reset
C18_ResetFields ==
    TablePage =>
        \A n \in 2..Len(all_data) :
            \A key \in FieldKeys \cap ResetKeys : FreshField(n, key)

\* a header outside the six: the later row has no cell under it and its
\* Record has the cell of the row before
C18_WitnessStale ==
    /\ TablePage /\ thr[1].pc = "done" /\ Len(all_data) = 2
    /\ thr[1].page.ths = <<<<"Komplektatsiya">>, <<" ", "Moshchnost", "\n">>>>
    /\ Len(CellsOfRecord(1)) = 2 /\ Len(CellsOfRecord(2)) = 1
    /\ Records[2][<<"Moshchnost">>] = Records[1][<<"Moshchnost">>]
    /\ Records[2][<<"Moshchnost">>] = <<"r1", " ", "c2">>

\* a header of the six: the later row has no cell under it and its Record
\* has the placeholder
C18_WitnessReset ==
    /\ TablePage /\ thr[1].pc = "done" /\ Len(all_data) = 2
    /\ thr[1].page.ths = <<<<" ">>, <<"Komplektatsiya">>>>
    /\ Len(CellsOfRecord(1)) = 2 /\ Len(CellsOfRecord(2)) = 1
    /\ Records[1][K_Komplektatsiya] = <<"r1", " ", "c2">>
    /\ Records[2][K_Komplektatsiya] = Dash

----------------------------------------------------------------------------
(* A model stage and the generation tasks below it *)

\* most generation tasks the model stage submits
MaxSiblings == 2

\* the model stage and its tasks
BranchIds == 0..MaxSiblings

\* the dict parse_brand_page made for the model
ModelDict ==
    (K_TIP :> <<"tip1">>) @@ (K_Marka :> <<"marka0">>)
        @@ (K_Model :> <<"model0">>)

\* a worker of the brand stage's executor about to run
\* parse_car_model_page(car_model_url, data)
BranchInit ==
    /\ FetchIdle
    /\ all_data = <<>>
    /\ heap = <<ModelDict>>
    /\ file_lock = FALSE
    /\ last_save_time = 0
    /\ now = 0
    /\ file = NoFile
    /\ lastSave = NoSave
    /\ thr = [t \in BranchIds |->
                IF t = 0 THEN Frame("model", "start", StagePage, 1, ModelDict)
                ELSE FreeFrame]

BranchNext ==
    \/ \E t \in BranchIds :
        \/ StageFetchFailed(t)
        \/ StageFetchOk(t)
        \/ StageSubmit(t)
        \/ StageSubmitRaises(t)
        \/ StageSubmitted(t)
        \/ StageWaitDone(t)
        \/ StageJoinDone(t)
        \/ TaskStart(t)
        \/ GenFetchFailed(t)
        \/ GenNoTable(t)
        \/ GenTableNoRows(t)
        \/ GenTableHeaders(t)
        \/ GenFallbackAcquire(t)
        \/ GenFallbackAppend(t)
        \/ GenSectionRow(t)
        \/ GenDataRow(t)
        \/ GenRowAcquire(t)
        \/ GenRowAppend(t)
        \/ GenRowsEnd(t)
        \/ GenSetTime(t)
        \/ SaveAcquire(t)
        \/ SaveSnapshot(t)
        \/ SaveWriteOk(t)
        \/ SaveWriteFails(t)
    \/ Tick

SpecBranch == BranchInit /\ [][BranchNext]_vars

----------------------------------------------------------------------------
(* Claims about the context dicts *)

\* the threads that run a stage or a task
Live == {t \in DOMAIN thr : thr[t].pc # "free" /\ thr[t].data > 0}

\* the step leaves thread t where it is
Idle(t) == thr'[t] = thr[t]

\* C19: every task has a context dict of its own: no two threads hold the
\* same dict object and no Record of all_data is the dict object of a
\* thread; a step of one thread (the placeholder and row-field writes of
\* parse_car_generation_page included) changes neither the dict of any
\* other thread (sibling or parent) nor a Record that is in all_data; a
\* stage's dict stays as it was passed to the stage.
C19_CopyOnBranch ==
    /\ [](\A a, b \in Live : a # b => thr[a].data # thr[b].data)
    /\ [](\A t \in Live : \A j \in 1..Len(all_data) : all_data[j] # thr[t].data)
    /\ [](\A t \in Live :
            thr[t].kind \in StageKinds => heap[thr[t].data] = thr[t].ctx)
    /\ [][\A t \in Live : Idle(t) => heap'[thr[t].data] = heap[thr[t].data]]_vars
    /\ [][IsPrefix(Records, Records')]_vars

\* two generation tasks of one model stage have written their placeholders
\* and row fields and appended their Records; the Records differ, and the
\* stage's dict has none of those writes
C19_Witness ==
    \E p, a, b \in DOMAIN thr :
        /\ a # b /\ thr[a].parent = p /\ thr[b].parent = p
        /\ thr[p].kind = "model" /\ thr[p].pc = "done"
        /\ thr[a].pc = "done" /\ thr[b].pc = "done"
        /\ Len(thr[a].built) = 1 /\ Len(thr[b].built) = 1
        /\ thr[a].page.kind = "table" /\ thr[b].page.kind = "notable"
        /\ thr[a].built[1] # thr[b].built[1]
        /\ Len(all_data) = 2
        /\ K_Obshchee \notin DOMAIN heap[thr[p].data]
        /\ K_Opisanie \notin DOMAIN heap[thr[p].data]

----------------------------------------------------------------------------
(* The crawl that no interrupt ends *)

CrawlNext ==
    \/ \E t \in TaskIds :
        \/ StageFetchFailed(t)
        \/ StageFetchOk(t)
        \/ StageSubmit(t)
        \/ StageSubmitRaises(t)
        \/ StageSubmitted(t)
        \/ StageWaitDone(t)
        \/ StageJoinDone(t)
        \/ TaskStart(t)
        \/ GenFetchFailed(t)
        \/ GenNoTable(t)
        \/ GenTableNoRows(t)
        \/ GenTableHeaders(t)
        \/ GenFallbackAcquire(t)
        \/ GenFallbackAppend(t)
        \/ GenSectionRow(t)
        \/ GenDataRow(t)
        \/ GenRowAcquire(t)
        \/ GenRowAppend(t)
        \/ GenRowsEnd(t)
        \/ GenSetTime(t)
        \/ SaveAcquire(t)
        \/ SaveSnapshot(t)
        \/ SaveWriteOk(t)
        \/ SaveWriteFails(t)
    \/ MainNextRoot
    \/ MainFinalSave
    \/ MainHandleException
    \/ Tick

\* every HTTP request returns or raises within its timeout and the
\* scheduler keeps running a thread that can run: a step is taken whenever
\* one can be
SpecCrawl == MainInit /\ [][CrawlNext]_vars /\ WF_vars(CrawlNext)

\* the crawl is over: the main thread has left the main block, no task is
\* queued or running, the lock is free
CrawlOver ==
    /\ thr[MainId].pc = "exit"
    /\ AllTasksFinished
    /\ ~ file_lock

=============================================================================
